---- MODULE Spec2Model ----
(***************************************************************************)
(* The chat backend of ai-chat-support: the two request handlers           *)
(* userMessage and userHistory (backend/controller/message.controller.ts), *)
(* the reply generator AI (backend/service/chatgpt.service.ts), the        *)
(* validator chains and the Message collection.                            *)
(*                                                                         *)
(* A request runs as a chain of steps separated by its await points; the   *)
(* steps of different requests interleave freely, as they do on the Node   *)
(* event loop.                                                             *)
(***************************************************************************)
EXTENDS Integers, Sequences, FiniteSets, TLC

(***************************************************************************)
(* Bounds of the exploration.                                              *)
(***************************************************************************)
\* request slots: how many requests can be in flight at once
MaxReqs == 2
\* turns that can be written with freely chosen inputs (any session, any
\* text, concurrent, equal timestamps)
MaxFreeTurns == 2
\* turns the collection can hold in all; the turns beyond MaxFreeTurns are
\* written by one sequential client of one session, so that a session grows
\* past the $limit of the prompt read
MaxTurns == 12

(***************************************************************************)
(* Program constants.                                                      *)
(***************************************************************************)
\* { $limit: 10 }
PromptLimit == 10
\* isLength({ min: 1, max: 200 }) of sessionId
MaxSessionIdLen == 200
\* isLength({ min: 1, max: 5000 }) of message
MaxMessageLen == 5000

(***************************************************************************)
(* Texts.  A request text (sessionId, message, reply) is a sequence of     *)
(* runs [ch, n]: n >= 1 copies of the character ch, adjacent runs having   *)
(* different characters.  Only its length, its whitespace at both ends and *)
(* its identity matter to the handlers.                                    *)
(***************************************************************************)
Run(c, k) == [ch |-> c, n |-> k]
Txt(c) == <<Run(c, 1)>>
Padded(c) == <<Run(" ", 1), Run(c, 1), Run(" ", 1)>>
EmptyText == <<>>

RECURSIVE TextLen(_)
TextLen(t) == IF t = <<>> THEN 0 ELSE Head(t).n + TextLen(Tail(t))

RECURSIVE TrimLeft(_)
TrimLeft(t) ==
    IF t # <<>> /\ Head(t).ch = " " THEN TrimLeft(Tail(t)) ELSE t

RECURSIVE TrimRight(_)
TrimRight(t) ==
    IF t # <<>> /\ t[Len(t)].ch = " "
    THEN TrimRight(SubSeq(t, 1, Len(t) - 1))
    ELSE t

\* .trim() of a validator chain
trim(t) == TrimRight(TrimLeft(t))

\* .notEmpty()
notEmpty(t) == TextLen(t) > 0

\* a length check whose upper bound is exclusive
isLengthBelow(t, min, max) == TextLen(t) >= min /\ TextLen(t) < max

\* .isLength({ min, max })
isLength(t, min, max) == TextLen(t) >= min /\ TextLen(t) <= max


(***************************************************************************)
(* Validator chains (express-validator).  A chain's sanitizer rewrites the *)
(* field of req.body it runs on; its validators then see the sanitized     *)
(* value.  The result is the rewritten body and the fields in error.       *)
(***************************************************************************)
sessionIdChain(v) ==
    LET t == trim(v)
    IN  [value |-> t,
         ok |-> notEmpty(t) /\ isLength(t, 1, MaxSessionIdLen)]

messageChain(v) ==
    LET t == trim(v)
    IN  [value |-> t,
         ok |-> notEmpty(t) /\ isLength(t, 1, MaxMessageLen)]

validateMessage(body) ==
    [body |-> [sessionId |-> sessionIdChain(body.sessionId).value,
               message |-> messageChain(body.message).value],
     errors |-> {f \in {"sessionId"} : ~sessionIdChain(body.sessionId).ok}
                \cup {f \in {"message"} : ~messageChain(body.message).ok}]

validateHistory(body) ==
    [body |-> [sessionId |-> sessionIdChain(body.sessionId).value],
     errors |-> {f \in {"sessionId"} : ~sessionIdChain(body.sessionId).ok}]

\* the validation middleware's answer to a request whose chains report errors
validate(errors) ==
    [status |-> 400, body |-> [msg |-> "Validation failed", errors |-> errors]]

(***************************************************************************)
(* Errors.  An error object carries its message, a sequence of characters, *)
(* and its enumerable own properties, which are what JSON serialisation of *)
(* the object emits (message and stack are not enumerable).  kind records  *)
(* which failure of which collaborator raised it.                          *)
(***************************************************************************)
MsgIncorrectApiKey == <<"I", "n", "c", "o", "r", "r", "e", "c", "t", " ", "A", "P", "I", " ", "k", "e", "y">>
MsgRateLimit == <<"R", "a", "t", "e", " ", "l", "i", "m", "i", "t", " ", "r", "e", "a", "c", "h", "e", "d">>
MsgQuota == <<"Y", "o", "u", " ", "e", "x", "c", "e", "e", "d", "e", "d", " ", "y", "o", "u", "r", " ", "q", "u", "o", "t", "a">>
MsgTimedOut == <<"R", "e", "q", "u", "e", "s", "t", " ", "t", "i", "m", "e", "d", " ", "o", "u", "t", ".">>
MsgNetworkTimeout == <<"n", "e", "t", "w", "o", "r", "k", " ", "t", "i", "m", "e", "o", "u", "t">>
MsgBadRequest == <<"B", "a", "d", " ", "r", "e", "q", "u", "e", "s", "t">>
MsgNoContent == <<"N", "o", " ", "r", "e", "s", "p", "o", "n", "s", "e", " ", "c", "o", "n", "t", "e", "n", "t", " ", "f", "r", "o", "m", " ", "O", "p", "e", "n", "A", "I">>
MsgMongoAuth == <<"A", "u", "t", "h", "e", "n", "t", "i", "c", "a", "t", "i", "o", "n", " ", "f", "a", "i", "l", "e", "d", ".">>
MsgMongoClosed == <<"c", "o", "n", "n", "e", "c", "t", "i", "o", "n", " ", "c", "l", "o", "s", "e", "d">>
KwApiKey == <<"a", "p", "i", " ", "k", "e", "y">>
KwAuthentication == <<"a", "u", "t", "h", "e", "n", "t", "i", "c", "a", "t", "i", "o", "n">>
KwRateLimit == <<"r", "a", "t", "e", " ", "l", "i", "m", "i", "t">>
KwQuota == <<"q", "u", "o", "t", "a">>
KwTimeout == <<"t", "i", "m", "e", "o", "u", "t">>
KwNetwork == <<"n", "e", "t", "w", "o", "r", "k">>

LowerOf(c) ==
    CASE c = "A" -> "a"
      [] c = "B" -> "b"
      [] c = "C" -> "c"
      [] c = "D" -> "d"
      [] c = "E" -> "e"
      [] c = "F" -> "f"
      [] c = "G" -> "g"
      [] c = "H" -> "h"
      [] c = "I" -> "i"
      [] c = "J" -> "j"
      [] c = "K" -> "k"
      [] c = "L" -> "l"
      [] c = "M" -> "m"
      [] c = "N" -> "n"
      [] c = "O" -> "o"
      [] c = "P" -> "p"
      [] c = "Q" -> "q"
      [] c = "R" -> "r"
      [] c = "S" -> "s"
      [] c = "T" -> "t"
      [] c = "U" -> "u"
      [] c = "V" -> "v"
      [] c = "W" -> "w"
      [] c = "X" -> "x"
      [] c = "Y" -> "y"
      [] c = "Z" -> "z"
      [] OTHER -> c

\* String.prototype.toLowerCase
toLowerCase(s) == [i \in 1..Len(s) |-> LowerOf(s[i])]

\* String.prototype.includes
includes(s, sub) ==
    \E i \in 0..(Len(s) - Len(sub)) : SubSeq(s, i + 1, i + Len(sub)) = sub

Error(k, m, c, n) ==
    [kind |-> k, message |-> m, props |-> [code |-> c, codeName |-> n]]

\* what openai.chat.completions.create can reject with
GeneratorErrors ==
    { Error("auth", MsgIncorrectApiKey, 401, "invalid_api_key"),
      Error("rate", MsgRateLimit, 429, "rate_limit_exceeded"),
      Error("rate", MsgQuota, 429, "insufficient_quota"),
      Error("timeout", MsgTimedOut, 0, "timeout"),
      Error("timeout", MsgNetworkTimeout, 0, "request-timeout"),
      Error("other", MsgBadRequest, 400, "invalid_request_error") }

\* thrown by AI itself when the completion carries no content
EmptyGenerationError == Error("empty", MsgNoContent, 0, "Error")

\* what Message.aggregate and Message.create can reject with
StorageErrors ==
    { Error("storage", MsgMongoAuth, 18, "AuthenticationFailed"),
      Error("storage", MsgMongoClosed, 0, "MongoNetworkError") }

\* JSON serialisation of an error object inside a response body
toJSON(error) == error.props

(***************************************************************************)
(* The catch blocks of the two handlers.                                   *)
(***************************************************************************)
userMessageCatch(error) ==
    LET errorMessage == toLowerCase(error.message)
    IN  IF includes(errorMessage, KwApiKey)
           \/ includes(errorMessage, KwAuthentication)
        THEN [status |-> 500,
              body |-> [msg |-> "Service configuration error. Please contact support.",
                        error |-> "Invalid API configuration"]]
        ELSE IF includes(errorMessage, KwRateLimit)
                \/ includes(errorMessage, KwQuota)
        THEN [status |-> 503,
              body |-> [msg |-> "Service is temporarily unavailable. Please try again in a moment.",
                        error |-> "Rate limit exceeded"]]
        ELSE IF includes(errorMessage, KwTimeout)
                \/ includes(errorMessage, KwNetwork)
        THEN [status |-> 504,
              body |-> [msg |-> "Request timed out. Please try again.",
                        error |-> "Request timeout"]]
        ELSE [status |-> 500,
              body |-> [msg |-> "Sorry, I'm having trouble processing your request. Please try again later.",
                        error |-> "Internal server error"]]

userHistoryCatch(error) ==
    [status |-> 500,
     body |-> [msg |-> "Internal Server Error", error |-> toJSON(error)]]


(***************************************************************************)
(* State.                                                                  *)
(*   collection : the documents of the Message model, in insertion order   *)
(*   now        : the last timestamp handed out (milliseconds)             *)
(*   req        : the requests in flight, one per slot: the handler's      *)
(*                locals, its position, and the response it has sent       *)
(***************************************************************************)
VARIABLES collection, now, req, client

vars == <<collection, now, req, client>>

Reqs == 1..MaxReqs

Min(a, b) == IF a <= b THEN a ELSE b

Range(f) == {f[i] : i \in DOMAIN f}

NoRes == [status |-> 0, body |-> [none |-> TRUE]]

Idle ==
    [op |-> "none", pc |-> "idle",
     raw |-> [sessionId |-> EmptyText, message |-> EmptyText],
     body |-> [sessionId |-> EmptyText, message |-> EmptyText],
     ids |-> <<>>, seen |-> 0,
     history |-> <<>>, messages |-> <<>>,
     response |-> EmptyText, createdAt |-> 0, at |-> 0,
     res |-> NoRes, steps |-> <<>>, calls |-> 0,
         failure |-> "none", kind |-> "none"]

\* persona and policy preamble of the generator
\* the closure of a fetch of the chat page that is under way: the sessionId
\* state it was started with and, for a send, whether the message list was
\* empty then
NoCall == [kind |-> "none", sessionId |-> EmptyText, first |-> FALSE]

\* the chat page before it is mounted: the useState initial values.
\* messages carry, beside sender and text, the session they belong to;
\* issued are the ids generateSessionId has handed out
Unmounted ==
    [mounted |-> FALSE, sessionId |-> EmptyText, messages |-> <<>>,
     loading |-> FALSE, chatSessions |-> <<>>, issued |-> {},
     calls |-> [r \in Reqs |-> NoCall]]

SYSTEM_PROMPT == Txt("SYSTEM_PROMPT")

(***************************************************************************)
(* Aggregation stages.  Documents are named by their position in the       *)
(* collection.  $sort on createdAt leaves the order of documents with      *)
(* equal createdAt unspecified: every order that respects the key is a     *)
(* possible result.                                                        *)
(***************************************************************************)
\* a pipeline without its $match stage: every document passes
matchAll(coll, sessionId) == 1..Len(coll)

\* { $match: { sessionId } }
match(coll, sessionId) ==
    {i \in 1..Len(coll) : coll[i].sessionId = sessionId}

\* { $sort: { createdAt: dir } }, dir = 1 ascending, -1 descending
RECURSIVE sort(_, _, _)
sort(coll, S, dir) ==
    IF S = {} THEN {<<>>}
    ELSE UNION { { <<i>> \o rest : rest \in sort(coll, S \ {i}, dir) } :
                 i \in { j \in S : \A k \in S :
                           dir * coll[j].createdAt <= dir * coll[k].createdAt } }

\* a limit stage that lets one document too many through
limitOneMore(docs, n) == SubSeq(docs, 1, Min(n + 1, Len(docs)))

\* { $limit: n }
limit(docs, n) == SubSeq(docs, 1, Min(n, Len(docs)))

\* $project of userMessage
projectMessage(doc) ==
    [messages |-> << [role |-> "user", content |-> doc.message],
                     [role |-> "assistant", content |-> doc.reply] >>]

\* $project of userHistory
projectHistory(doc) ==
    [messages |-> << [sender |-> "user", text |-> doc.message],
                     [sender |-> "ai", text |-> doc.reply] >>]

\* Array.prototype.flatMap over item.messages; also $unwind + $replaceRoot
RECURSIVE flatMap(_)
flatMap(data) ==
    IF data = <<>> THEN <<>>
    ELSE Head(data).messages \o flatMap(Tail(data))

\* Array.prototype.reverse
reverse(a) == [i \in 1..Len(a) |-> a[Len(a) + 1 - i]]

\* the documents the prompt read returns for one possible sort result
messageData(coll, order) ==
    [i \in 1..Len(limit(order, PromptLimit)) |->
        projectMessage(coll[limit(order, PromptLimit)[i]])]

\* const history = data.flatMap(...).reverse()
historyOf(data) == reverse(flatMap(data))

\* a history pipeline that carries the $limit stage of the prompt read
historyDataLimited(coll, order) ==
    flatMap([i \in 1..Len(limit(order, PromptLimit)) |->
               projectHistory(coll[limit(order, PromptLimit)[i]])])

\* the documents userHistory's aggregate returns for one possible sort result
historyData(coll, order) ==
    flatMap([i \in 1..Len(order) |-> projectHistory(coll[order[i]])])

\* a message list with the history newest first
AIMessagesNewestFirst(message, history) ==
    << [role |-> "system", content |-> SYSTEM_PROMPT] >>
    \o [i \in 1..Len(history) |->
          [role |-> history[Len(history) + 1 - i].role,
           content |-> history[Len(history) + 1 - i].content]]
    \o << [role |-> "user", content |-> message] >>

\* the message list AI sends to the model
AIMessages(message, history) ==
    << [role |-> "system", content |-> SYSTEM_PROMPT] >>
    \o [i \in 1..Len(history) |->
          [role |-> IF history[i].role = "assistant" THEN "assistant" ELSE "user",
           content |-> history[i].content]]
    \o << [role |-> "user", content |-> message] >>

\* a document built with message and reply exchanged
newDocumentSwapped(sessionId, message, reply, createdAt) ==
    [sessionId |-> sessionId, message |-> reply, reply |-> message,
     createdAt |-> createdAt]

\* the document Message.create builds: timestamps sets createdAt on creation
newDocument(sessionId, message, reply, createdAt) ==
    [sessionId |-> sessionId, message |-> message, reply |-> reply,
     createdAt |-> createdAt]


(***************************************************************************)
(* Inputs.                                                                 *)
(***************************************************************************)
\* sessionId as clients send it: plain, padded with blanks, empty
RawSessionIds == {Txt("s1"), Padded("s2"), EmptyText}

\* message as clients send it: plain, padded with blanks, blank
RawMessages == {Txt("a"), Padded("b"), <<Run(" ", 1)>>}

\* request bodies of POST /chat/message
MessageBodies ==
    {b \in [sessionId : RawSessionIds, message : RawMessages] :
        b.sessionId = Txt("s1") \/ b.message = Txt("a")}

\* content of a completion that has content
Replies == {Txt("r"), Txt("q")}

\* the request of the sequential client that fills the collection up
TailBody == [sessionId |-> Txt("s1"), message |-> Txt("a")]
TailReply == Txt("r")

\* a submit request that may still write
Pending(r) ==
    req[r].op = "message" /\ req[r].pc \in {"reading", "generating", "writing"}

NPending == Cardinality({r \in Reqs : Pending(r)})

\* the bound on submit requests: free inputs for the first MaxFreeTurns
\* turns, one sequential client after that
CanSubmit(body) ==
    \/ Len(collection) + NPending < MaxFreeTurns
    \/ /\ NPending = 0
       /\ Len(collection) < MaxTurns
       /\ body = TailBody

\* the timestamp t has been handed out
Used(t) ==
    \/ \E i \in 1..Len(collection) : collection[i].createdAt = t
    \/ \E r \in Reqs : req[r].pc = "writing" /\ req[r].createdAt = t

\* the number of timestamps held by documents and by inserts under way.
\* Only the order of timestamps is observable, so the clock need not run
\* further ahead than one past this number.
InUse ==
    Len(collection) + Cardinality({r \in Reqs : req[r].pc = "writing"})

\* the lowest free slot takes the next request; requests overlap only while
\* the collection holds fewer than MaxFreeTurns turns
Free(r) ==
    /\ req[r].pc = "idle"
    /\ \A q \in Reqs : q < r => req[q].pc # "idle"
    /\ Len(collection) < MaxFreeTurns \/ \A q \in Reqs : req[q].pc = "idle"

Step(r, name) == Append(req[r].steps, name)

\* the handler's catch block has answered: the request is over
Failed(r, step, error, res) ==
    [Idle EXCEPT !.op = req[r].op, !.pc = "done", !.res = res,
                 !.failure = step, !.kind = error.kind,
                 !.steps = req[r].steps, !.calls = req[r].calls]

\* a route without the validation middleware: userMessage runs on any body
PostMessageUnchecked(r, raw) ==
    /\ Free(r)
    /\ LET v == validateMessage(raw)
       IN  /\ CanSubmit(v.body)
           /\ req' = [req EXCEPT ![r] =
                    [Idle EXCEPT !.op = "message", !.pc = "reading", !.raw = raw,
                                 !.body = v.body]]
    /\ UNCHANGED <<collection, now, client>>

(***************************************************************************)
(* POST /chat/message: validate(validateMessage), then userMessage up to   *)
(* its first await (Message.aggregate is sent).                            *)
(***************************************************************************)
RouteMessage(r, raw) ==
    /\ Free(r)
    /\ LET v == validateMessage(raw)
       IN  IF v.errors # {}
           THEN req' = [req EXCEPT ![r] =
                    [Idle EXCEPT !.op = "message", !.pc = "done", !.raw = raw,
                                 !.res = validate(v.errors),
                                 !.failure = "validation", !.kind = "validation"]]
           ELSE /\ CanSubmit(v.body)
                /\ req' = [req EXCEPT ![r] =
                    [Idle EXCEPT !.op = "message", !.pc = "reading", !.raw = raw,
                                 !.body = v.body]]
    /\ UNCHANGED <<collection, now>>

\* a request to POST /chat/message from any client
PostMessage(r, raw) == RouteMessage(r, raw) /\ UNCHANGED client

\* the aggregate of userMessage is answered; history is built and AI sends
\* the message list to the model
UserMessageAggregate(r) ==
    /\ req[r].op = "message" /\ req[r].pc = "reading"
    /\ \E order \in sort(collection, match(collection, req[r].body.sessionId), -1) :
          LET data == messageData(collection, order)
              history == historyOf(data)
          IN  req' = [req EXCEPT ![r].pc = "generating",
                                 ![r].ids = limit(order, PromptLimit),
                                 ![r].seen = Len(collection),
                                 ![r].history = history,
                                 ![r].messages = AIMessages(req[r].body.message, history),
                                 ![r].calls = req[r].calls + 1,
                                 ![r].steps = Step(r, "read")]
    /\ UNCHANGED <<collection, now, client>>

\* the aggregate of userMessage rejects
UserMessageAggregateFail(r, error) ==
    /\ req[r].op = "message" /\ req[r].pc = "reading"
    /\ req' = [req EXCEPT ![r] = Failed(r, "read", error, userMessageCatch(error))]
    /\ UNCHANGED <<collection, now, client>>

\* the completion arrives with content: AI returns it and Message.create
\* builds the document, stamped with the current time, and sends the insert.
\* dt = 1: a millisecond has passed since the last timestamp was handed out;
\* dt = 0: the document shares that timestamp.
AIReturn(r, content, dt) ==
    /\ req[r].op = "message" /\ req[r].pc = "generating"
    /\ IF Used(now) THEN dt = 1 \/ Len(collection) < MaxFreeTurns ELSE dt = 0
    /\ dt = 1 => now <= InUse
    /\ Len(collection) < MaxFreeTurns \/ content = TailReply
    /\ now' = now + dt
    /\ req' = [req EXCEPT ![r].pc = "writing",
                          ![r].response = content,
                          ![r].createdAt = now',
                          ![r].ids = <<>>, ![r].history = <<>>, ![r].messages = <<>>,
                          ![r].steps = Step(r, "generate")]
    /\ UNCHANGED <<collection, client>>

\* a handler without the catch block: the throw of AI ends the handler and
\* nothing is sent
AIEmptyUncaught(r) ==
    /\ req[r].op = "message" /\ req[r].pc = "generating"
    /\ req' = [req EXCEPT ![r].pc = "ended", ![r].failure = "generate",
                          ![r].kind = EmptyGenerationError.kind]
    /\ UNCHANGED <<collection, now, client>>

\* the completion arrives without content: AI throws
AIEmpty(r) ==
    /\ req[r].op = "message" /\ req[r].pc = "generating"
    /\ req' = [req EXCEPT ![r] =
                 Failed(r, "generate", EmptyGenerationError,
                        userMessageCatch(EmptyGenerationError))]
    /\ UNCHANGED <<collection, now, client>>

\* a handler that saves the unanswered message when the model call rejects
AIFailSaved(r, error) ==
    /\ req[r].op = "message" /\ req[r].pc = "generating"
    /\ collection' = Append(collection,
                            newDocument(req[r].body.sessionId, req[r].body.message,
                                        EmptyText, now))
    /\ req' = [req EXCEPT ![r] = Failed(r, "generate", error, userMessageCatch(error))]
    /\ UNCHANGED <<now, client>>

\* a generator that sends the message list again when the call rejects,
\* and gives up at the third rejection
AIFailRetry(r, error) ==
    /\ req[r].op = "message" /\ req[r].pc = "generating"
    /\ req' = [req EXCEPT ![r] =
                 IF req[r].calls < 3
                 THEN [req[r] EXCEPT !.calls = req[r].calls + 1]
                 ELSE Failed(r, "generate", error, userMessageCatch(error))]
    /\ UNCHANGED <<collection, now, client>>

\* the call to the model rejects
AIFail(r, error) ==
    /\ req[r].op = "message" /\ req[r].pc = "generating"
    /\ req' = [req EXCEPT ![r] = Failed(r, "generate", error, userMessageCatch(error))]
    /\ UNCHANGED <<collection, now, client>>

\* a write that keeps one document per session (update with upsert)
MessageCreateUpsert(r) ==
    /\ req[r].op = "message" /\ req[r].pc = "writing"
    /\ LET doc == newDocument(req[r].body.sessionId, req[r].body.message,
                              req[r].response, req[r].createdAt)
           old == match(collection, req[r].body.sessionId)
           i == IF old = {} THEN Len(collection) + 1
                ELSE CHOOSE j \in old : \A k \in old : j <= k
       IN  /\ collection' = IF old = {} THEN Append(collection, doc)
                             ELSE [collection EXCEPT ![i] = doc]
           /\ req' = [req EXCEPT ![r].pc = "written",
                                 ![r].at = i,
                                 ![r].steps = Step(r, "persist")]
    /\ UNCHANGED <<now, client>>

\* the insert of Message.create is applied
MessageCreate(r) ==
    /\ req[r].op = "message" /\ req[r].pc = "writing"
    /\ collection' = Append(collection,
                            newDocument(req[r].body.sessionId, req[r].body.message,
                                        req[r].response, req[r].createdAt))
    /\ req' = [req EXCEPT ![r].pc = "written",
                          ![r].at = Len(collection) + 1,
                          ![r].steps = Step(r, "persist")]
    /\ UNCHANGED <<now, client>>

\* a handler that still delivers the generated reply when the write rejects
MessageCreateFailReplied(r, error) ==
    /\ req[r].op = "message" /\ req[r].pc = "writing"
    /\ req' = [req EXCEPT ![r].pc = "done",
                          ![r].failure = "write",
                          ![r].kind = error.kind,
                          ![r].res = [status |-> 200,
                                      body |-> [reply |-> req[r].response,
                                                sessionId |-> req[r].body.sessionId]]]
    /\ UNCHANGED <<collection, now, client>>

\* Message.create rejects
MessageCreateFail(r, error) ==
    /\ req[r].op = "message" /\ req[r].pc = "writing"
    /\ req' = [req EXCEPT ![r] = Failed(r, "write", error, userMessageCatch(error))]
    /\ UNCHANGED <<collection, now, client>>

\* res.status(200).json({ reply: response, sessionId })
UserMessageRespond(r) ==
    /\ req[r].op = "message" /\ req[r].pc = "written"
    /\ req' = [req EXCEPT ![r].pc = "done",
                          ![r].res = [status |-> 200,
                                      body |-> [reply |-> req[r].response,
                                                sessionId |-> req[r].body.sessionId]],
                          ![r].steps = Step(r, "respond")]
    /\ UNCHANGED <<collection, now, client>>

(***************************************************************************)
(* POST /chat/history: validate(validateHistory), then userHistory.        *)
(***************************************************************************)
RouteHistory(r, sessionId) ==
    /\ Free(r)
    /\ LET raw == [sessionId |-> sessionId, message |-> EmptyText]
           v == validateHistory(raw)
       IN  IF v.errors # {}
           THEN req' = [req EXCEPT ![r] =
                    [Idle EXCEPT !.op = "history", !.pc = "done", !.raw = raw,
                                 !.res = validate(v.errors),
                                 !.failure = "validation", !.kind = "validation"]]
           ELSE req' = [req EXCEPT ![r] =
                    [Idle EXCEPT !.op = "history", !.pc = "reading", !.raw = raw,
                                 !.body = [sessionId |-> v.body.sessionId,
                                           message |-> EmptyText]]]
    /\ UNCHANGED <<collection, now>>

\* a request to POST /chat/history from any client
PostHistory(r, sessionId) == RouteHistory(r, sessionId) /\ UNCHANGED client

\* the aggregate of userHistory is answered and the handler responds
UserHistoryAggregate(r) ==
    /\ req[r].op = "history" /\ req[r].pc = "reading"
    /\ \E order \in sort(collection, match(collection, req[r].body.sessionId), 1) :
          req' = [req EXCEPT ![r].pc = "done",
                             ![r].ids = order,
                             ![r].seen = Len(collection),
                             ![r].res = [status |-> 200,
                                         body |-> [data |-> historyData(collection, order)]],
                             ![r].steps = Step(r, "read") \o <<"respond">>]
    /\ UNCHANGED <<collection, now, client>>

\* the aggregate of userHistory rejects
UserHistoryAggregateFail(r, error) ==
    /\ req[r].op = "history" /\ req[r].pc = "reading"
    /\ req' = [req EXCEPT ![r] = Failed(r, "read", error, userHistoryCatch(error))]
    /\ UNCHANGED <<collection, now, client>>

(***************************************************************************)
(* Environment.                                                            *)
(***************************************************************************)
\* the client has its response; the slot takes the next request
Release(r) ==
    /\ req[r].pc = "done"
    /\ req' = [req EXCEPT ![r] = Idle]
    /\ UNCHANGED <<collection, now>>

\* a response handed to any client
Deliver(r) == Release(r) /\ UNCHANGED client

Init ==
    /\ collection = <<>>
    /\ now = 1
    /\ req = [r \in Reqs |-> Idle]
    /\ client = Unmounted

Next ==
    \/ \E r \in Reqs, b \in MessageBodies : PostMessage(r, b)
    \/ \E r \in Reqs : UserMessageAggregate(r)
    \/ \E r \in Reqs, e \in StorageErrors : UserMessageAggregateFail(r, e)
    \/ \E r \in Reqs, c \in Replies, dt \in {0, 1} : AIReturn(r, c, dt)
    \/ \E r \in Reqs : AIEmpty(r)
    \/ \E r \in Reqs, e \in GeneratorErrors : AIFail(r, e)
    \/ \E r \in Reqs : MessageCreate(r)
    \/ \E r \in Reqs, e \in StorageErrors : MessageCreateFail(r, e)
    \/ \E r \in Reqs : UserMessageRespond(r)
    \/ \E r \in Reqs, s \in RawSessionIds : PostHistory(r, s)
    \/ \E r \in Reqs : UserHistoryAggregate(r)
    \/ \E r \in Reqs, e \in StorageErrors : UserHistoryAggregateFail(r, e)
    \/ \E r \in Reqs : Deliver(r)

Spec == Init /\ [][Next]_vars
\* the external call request r waits for returns or fails
Progress(r) ==
    \/ UserMessageAggregate(r)
    \/ \E e \in StorageErrors : UserMessageAggregateFail(r, e)
    \/ \E c \in Replies, dt \in {0, 1} : AIReturn(r, c, dt)
    \/ AIEmpty(r)
    \/ \E e \in GeneratorErrors : AIFail(r, e)
    \/ MessageCreate(r)
    \/ \E e \in StorageErrors : MessageCreateFail(r, e)
    \/ UserMessageRespond(r)
    \/ UserHistoryAggregate(r)
    \/ \E e \in StorageErrors : UserHistoryAggregateFail(r, e)

\* request r waits for a call to settle; this is when Progress(r) is enabled
Awaiting(r) == req[r].pc \in {"reading", "generating", "writing", "written"}

\* weak fairness of Progress(r), with its enabling condition written out:
\* a request does not wait forever for a call
Fair(r) == []<>(~Awaiting(r)) \/ []<><<Progress(r)>>_vars

\* every external call eventually returns or fails
FairSpec == Spec /\ \A r \in Reqs : Fair(r)


(***************************************************************************)
(* Requests at the length limits of the validator chains.  The texts are   *)
(* as long as the limits, one longer, empty, blank, and as long as the     *)
(* limit with blanks around.  The model is down in these behaviours: every *)
(* completion fails or is empty, so the collection stays empty and only    *)
(* the admission of requests is explored.                                  *)
(***************************************************************************)
Blank == <<Run(" ", 1)>>

BoundarySessionIds ==
    {EmptyText, Blank, <<Run("s", 1)>>,
     <<Run("s", MaxSessionIdLen)>>, <<Run("s", MaxSessionIdLen + 1)>>,
     <<Run(" ", 1), Run("s", MaxSessionIdLen), Run(" ", 1)>>}

BoundaryMessages ==
    {EmptyText, Blank, <<Run("m", 1)>>,
     <<Run("m", MaxMessageLen)>>, <<Run("m", MaxMessageLen + 1)>>,
     <<Run(" ", 1), Run("m", MaxMessageLen)>>}

BoundaryBodies == [sessionId : BoundarySessionIds, message : BoundaryMessages]

NextBoundary ==
    \/ \E r \in Reqs, b \in BoundaryBodies : PostMessage(r, b)
    \/ \E r \in Reqs : UserMessageAggregate(r)
    \/ \E r \in Reqs, e \in StorageErrors : UserMessageAggregateFail(r, e)
    \/ \E r \in Reqs : AIEmpty(r)
    \/ \E r \in Reqs, e \in GeneratorErrors : AIFail(r, e)
    \/ \E r \in Reqs, s \in BoundarySessionIds : PostHistory(r, s)
    \/ \E r \in Reqs : UserHistoryAggregate(r)
    \/ \E r \in Reqs, e \in StorageErrors : UserHistoryAggregateFail(r, e)
    \/ \E r \in Reqs : Deliver(r)

SpecBoundary == Init /\ [][NextBoundary]_vars

(***************************************************************************)
(* The chat page (frontend/src/pages/Chat.tsx).  Its state is the React    *)
(* state of the component; a fetch it starts is a request to the routes    *)
(* above, and its continuation runs when the response is handed over.  A   *)
(* handler and the effect its state change triggers are one step.  The     *)
(* sidebar list keeps its order (most recently updated first); titles and  *)
(* times are left out.                                                     *)
(***************************************************************************)
\* displayed messages a send may start from
MaxShown == 4

\* what generateSessionId can return
ClientSessionIds == {Txt("s1"), Txt("s2")}

\* what the user types
ClientInputs == {Txt("a"), Padded("b"), Blank}

SomethingWentWrong == Txt("Something went wrong")

Without(sessions, sessionId) == SelectSeq(sessions, LAMBDA x : x # sessionId)

\* updateSessionTitle: the session is updated or added, and sorted first
updateSessionTitle(sessions, sessionId) ==
    <<sessionId>> \o Without(sessions, sessionId)

\* the history effect: fetchHistory is started with the new sessionId
FetchHistory(r, sessionId, next) ==
    /\ RouteHistory(r, sessionId)
    /\ client' = [next EXCEPT !.calls[r] =
                     [kind |-> "history", sessionId |-> sessionId, first |-> FALSE]]

\* the mount effect with an empty localStorage: a session id is generated
ClientMount(r, id) ==
    /\ ~client.mounted
    /\ id \in ClientSessionIds \ client.issued
    /\ FetchHistory(r, id, [client EXCEPT !.mounted = TRUE, !.sessionId = id,
                                          !.issued = client.issued \cup {id}])

\* handleNewChat
ClientNewChat(r, id) ==
    /\ client.mounted
    /\ id \in ClientSessionIds \ client.issued
    /\ FetchHistory(r, id, [client EXCEPT !.sessionId = id, !.messages = <<>>,
                                          !.issued = client.issued \cup {id}])

\* handleSelectChat on an entry of the sidebar
ClientSelectChat(r, selected) ==
    /\ client.mounted
    /\ selected \in Range(client.chatSessions)
    /\ selected # client.sessionId
    /\ FetchHistory(r, selected,
                    [client EXCEPT !.sessionId = selected, !.messages = <<>>])

\* handleDeleteChat on an entry of the sidebar
ClientDeleteChat(r, deleted, id) ==
    /\ client.mounted
    /\ deleted \in Range(client.chatSessions)
    /\ LET sessions == Without(client.chatSessions, deleted)
           next == [client EXCEPT !.chatSessions = sessions]
       IN  IF deleted # client.sessionId
           THEN /\ client' = next
                /\ UNCHANGED <<collection, now, req>>
           ELSE IF sessions # <<>>
           THEN FetchHistory(r, sessions[1],
                             [next EXCEPT !.sessionId = sessions[1],
                                          !.messages = <<>>])
           ELSE /\ id \in ClientSessionIds \ client.issued
                /\ FetchHistory(r, id, [next EXCEPT !.sessionId = id,
                                                    !.messages = <<>>,
                                                    !.issued = client.issued \cup {id}])

\* sendMessage up to its await: the user message is shown and the request
\* is sent
ClientSendMessage(r, input) ==
    /\ client.mounted
    /\ TextLen(trim(input)) > 0 /\ ~client.loading
    /\ Len(client.messages) < MaxShown /\ Len(collection) < MaxFreeTurns
    /\ RouteMessage(r, [sessionId |-> client.sessionId, message |-> input])
    /\ client' = [client EXCEPT
                     !.messages = Append(client.messages,
                                         [sender |-> "user", text |-> input,
                                          of |-> client.sessionId]),
                     !.loading = TRUE,
                     !.calls[r] = [kind |-> "message",
                                   sessionId |-> client.sessionId,
                                   first |-> client.messages = <<>>]]

\* the rest of sendMessage: the response of the send has arrived
ClientMessageArrives(r) ==
    /\ client.calls[r].kind = "message"
    /\ LET data == req[r].res.body
           call == client.calls[r]
           reply == IF "reply" \in DOMAIN data /\ data.reply # EmptyText
                    THEN data.reply ELSE SomethingWentWrong
       IN  client' = [client EXCEPT
                         !.messages = Append(client.messages,
                                             [sender |-> "ai", text |-> reply,
                                              of |-> call.sessionId]),
                         !.chatSessions =
                             IF call.first
                                \/ call.sessionId \in Range(client.chatSessions)
                             THEN updateSessionTitle(client.chatSessions,
                                                     call.sessionId)
                             ELSE client.chatSessions,
                         !.loading = FALSE,
                         !.calls[r] = NoCall]
    /\ Release(r)

\* the rest of fetchHistory: the response of the history fetch has arrived
ClientHistoryArrives(r) ==
    /\ client.calls[r].kind = "history"
    /\ LET data == req[r].res.body
           call == client.calls[r]
       IN  client' =
               IF "data" \in DOMAIN data
               THEN [client EXCEPT
                        !.messages = [k \in 1..Len(data.data) |->
                                         [sender |-> data.data[k].sender,
                                          text |-> data.data[k].text,
                                          of |-> call.sessionId]],
                        !.chatSessions =
                            IF data.data # <<>>
                            THEN updateSessionTitle(client.chatSessions,
                                                    call.sessionId)
                            ELSE client.chatSessions,
                        !.calls[r] = NoCall]
               ELSE [client EXCEPT !.calls[r] = NoCall]
    /\ Release(r)

NextClient ==
    \/ \E r \in Reqs, id \in ClientSessionIds : ClientMount(r, id)
    \/ \E r \in Reqs, id \in ClientSessionIds : ClientNewChat(r, id)
    \/ \E r \in Reqs, s \in ClientSessionIds : ClientSelectChat(r, s)
    \/ \E r \in Reqs, s, id \in ClientSessionIds : ClientDeleteChat(r, s, id)
    \/ \E r \in Reqs, input \in ClientInputs : ClientSendMessage(r, input)
    \/ \E r \in Reqs : UserMessageAggregate(r)
    \/ \E r \in Reqs, c \in Replies, dt \in {0, 1} : AIReturn(r, c, dt)
    \/ \E r \in Reqs : AIEmpty(r)
    \/ \E r \in Reqs : MessageCreate(r)
    \/ \E r \in Reqs : UserMessageRespond(r)
    \/ \E r \in Reqs : UserHistoryAggregate(r)
    \/ \E r \in Reqs, e \in StorageErrors : UserHistoryAggregateFail(r, e)
    \/ \E r \in Reqs : ClientMessageArrives(r)
    \/ \E r \in Reqs : ClientHistoryArrives(r)

SpecClient == Init /\ [][NextClient]_vars


(***************************************************************************)
(* Vocabulary of the properties.                                           *)
(***************************************************************************)
\* the turns of a session among the first n documents
TurnsOf(sessionId, n) ==
    {i \in 1..n : collection[i].sessionId = sessionId}

\* a submit request whose message list is with the model
Generating(r) == req[r].op = "message" /\ req[r].pc = "generating"

\* a request that has answered
Answered(r, op) == req[r].op = op /\ req[r].pc = "done"

Succeeded(r, op) == Answered(r, op) /\ req[r].res.status = 200

GenericFailure ==
    [status |-> 500,
     body |-> [msg |-> "Sorry, I'm having trouble processing your request. Please try again later.",
               error |-> "Internal server error"]]

(***************************************************************************)
(* C1: the prior-conversation part of the message list sent to the model   *)
(* is chronological: turns oldest first and, within each turn, the user    *)
(* message immediately followed by the assistant reply, so that the roles  *)
(* after the system preamble alternate user, assistant, user, ...          *)
(***************************************************************************)
C1_PromptChronological ==
    \A r \in Reqs : Generating(r) =>
        LET m == req[r].messages
            ids == req[r].ids
            n == Len(ids)
        IN  /\ Len(m) = 2 * n + 2
            /\ \A k \in 1..n :
                 LET t == collection[ids[n + 1 - k]]
                 IN  /\ m[2 * k] = [role |-> "user", content |-> t.message]
                     /\ m[2 * k + 1] = [role |-> "assistant", content |-> t.reply]
            /\ \A k \in 1..(n - 1) :
                 collection[ids[n + 1 - k]].createdAt
                    <= collection[ids[n - k]].createdAt

(***************************************************************************)
(* C2: the history handed to the generator consists of exactly the         *)
(* min(N, 10) most recent turns of the session, by creation time, none     *)
(* duplicated or skipped: empty when N = 0, all N turns when N < 10.       *)
(***************************************************************************)
C2_RecentTurns ==
    \A r \in Reqs : Generating(r) =>
        LET S == TurnsOf(req[r].body.sessionId, req[r].seen)
            ids == req[r].ids
            n == Len(ids)
            h == req[r].history
        IN  /\ n = Min(Cardinality(S), 10)
            /\ Range(ids) \subseteq S
            /\ Cardinality(Range(ids)) = n
            /\ \A i \in S \ Range(ids), j \in Range(ids) :
                 collection[i].createdAt <= collection[j].createdAt
            /\ Len(h) = 2 * n
            /\ \A k \in 1..n :
                 {h[2 * k - 1], h[2 * k]} =
                    Range(projectMessage(collection[ids[n + 1 - k]]).messages)

\* a prompt read of a session that holds more turns than the limit
C2_Witness ==
    \E r \in Reqs :
        /\ Generating(r)
        /\ Cardinality(TurnsOf(req[r].body.sessionId, req[r].seen)) > 10
        /\ Len(req[r].history) = 20

(***************************************************************************)
(* C3: fetch-history returns exactly 2*N entries for a session of N turns: *)
(* for the k-th turn in chronological order, entry 2k-1 is {user, the      *)
(* turn's message} and entry 2k is {ai, the turn's reply}; the prompt      *)
(* limit never truncates it.                                               *)
(***************************************************************************)
C3_FullHistory ==
    \A r \in Reqs : Succeeded(r, "history") =>
        LET S == TurnsOf(req[r].body.sessionId, req[r].seen)
            ids == req[r].ids
            data == req[r].res.body.data
        IN  /\ Len(data) = 2 * Cardinality(S)
            /\ Len(ids) = Cardinality(S)
            /\ Range(ids) = S
            /\ \A k \in 1..(Len(ids) - 1) :
                 collection[ids[k]].createdAt <= collection[ids[k + 1]].createdAt
            /\ \A k \in 1..Len(ids) :
                 /\ data[2 * k - 1] =
                      [sender |-> "user", text |-> collection[ids[k]].message]
                 /\ data[2 * k] =
                      [sender |-> "ai", text |-> collection[ids[k]].reply]

\* a history of a session that holds more turns than the prompt limit
C3_Witness ==
    \E r \in Reqs :
        /\ Succeeded(r, "history")
        /\ Len(req[r].res.body.data) > 2 * PromptLimit

(***************************************************************************)
(* C4: round trip.  After a submit request for (sessionId, message) has    *)
(* succeeded, with no other write in between, fetch-history for that       *)
(* sessionId ends with {user, message} then {ai, reply}: message exactly   *)
(* as the client submitted it, reply exactly as returned to the client.    *)
(***************************************************************************)
C4_RoundTrip ==
    \A r1, r2 \in Reqs :
        ( /\ Succeeded(r1, "message")
          /\ Succeeded(r2, "history")
          /\ req[r2].raw.sessionId = req[r1].raw.sessionId
          /\ req[r2].seen = req[r1].at )
        => LET data == req[r2].res.body.data
               n == Len(data)
           IN  /\ n >= 2
               /\ data[n - 1] = [sender |-> "user", text |-> req[r1].raw.message]
               /\ data[n] = [sender |-> "ai", text |-> req[r1].res.body.reply]


(***************************************************************************)
(* C5: if the generator call of a submit request fails, for whatever       *)
(* reason, the request creates no Turn: the step that fails leaves the     *)
(* collection as it is, the request has written nothing before it, and it  *)
(* does nothing afterwards but hand over its response.                     *)
(***************************************************************************)
C5_NoTurnOnGeneratorFailure ==
    [][\A r \in Reqs :
         /\ (Generating(r) /\ req'[r].failure = "generate")
              => /\ collection' = collection
                 /\ req'[r].pc = "done"
                 /\ \A k \in 1..Len(req[r].steps) : req[r].steps[k] # "persist"
         /\ (req[r].failure = "generate" /\ req'[r] # req[r])
              => collection' = collection /\ req'[r] = Idle]_vars

\* a generator failure has been answered while the collection holds turns
C5_Witness ==
    \E r \in Reqs :
        /\ Answered(r, "message")
        /\ req[r].failure = "generate"
        /\ req[r].kind = "rate"
        /\ Len(collection) > 0

(***************************************************************************)
(* C6: a submit request that answers 200 {reply, sessionId} has, before    *)
(* responding, created exactly one Turn, with the sessionId and message of *)
(* the request and the reply of the response; the steps of a request occur *)
(* in the order read history, generate, persist, respond.                  *)
(***************************************************************************)
HandlerOrder == <<"read", "generate", "persist", "respond">>

C7_AppendOnly ==
    [][/\ Len(collection') >= Len(collection)
       /\ \A i \in 1..Len(collection) : collection'[i] = collection[i]]_vars

\* a second turn of a session has been written while another request failed
C7_Witness ==
    /\ \E i, j \in 1..Len(collection) :
          i < j /\ collection[i].sessionId = collection[j].sessionId
    /\ \E r \in Reqs : req[r].failure = "write"

(***************************************************************************)
(* C8: when the generator call fails, the response of submit-message is a  *)
(* function of the failure kind only: authentication -> service            *)
(* configuration error, quota or rate limit -> 503, timeout or network ->  *)
(* 504, empty generation or unclassified -> generic processing failure.    *)
(***************************************************************************)
ResponseOfKind(kind) ==
    CASE kind = "auth" ->
           [status |-> 500,
            body |-> [msg |-> "Service configuration error. Please contact support.",
                      error |-> "Invalid API configuration"]]
      [] kind = "rate" ->
           [status |-> 503,
            body |-> [msg |-> "Service is temporarily unavailable. Please try again in a moment.",
                      error |-> "Rate limit exceeded"]]
      [] kind = "timeout" ->
           [status |-> 504,
            body |-> [msg |-> "Request timed out. Please try again.",
                      error |-> "Request timeout"]]
      [] OTHER -> GenericFailure

C8_ResponseByFailureKind ==
    \A r \in Reqs :
        (Answered(r, "message") /\ req[r].failure = "generate")
            => req[r].res = ResponseOfKind(req[r].kind)

(***************************************************************************)
(* C9: the body of a failure response holds only fixed text chosen by the  *)
(* failure category, never the caught error: two failures of one category  *)
(* with different internal detail are answered identically.                *)
(***************************************************************************)
Caught(r) ==
    req[r].pc = "done" /\ req[r].failure \in {"read", "generate", "write"}

C9_NoErrorDetail ==
    \A r1, r2 \in Reqs :
        ( /\ Caught(r1) /\ Caught(r2)
          /\ req[r1].op = req[r2].op
          /\ req[r1].res.status = req[r2].res.status
          /\ req[r1].res.body.msg = req[r2].res.body.msg )
        => req[r1].res.body.error = req[r2].res.body.error

(***************************************************************************)
(* C10: if the storage read that assembles history fails, the client gets  *)
(* the generic internal-error response, whatever the text of the storage   *)
(* error: never the authentication, rate-limit or timeout response.        *)
(***************************************************************************)
C10_ReadFailureIsGeneric ==
    \A r \in Reqs :
        (req[r].pc = "done" /\ req[r].failure = "read") =>
            IF req[r].op = "message"
            THEN req[r].res = GenericFailure
            ELSE /\ req[r].res.status = 500
                 /\ req[r].res.body.msg = "Internal Server Error"

(***************************************************************************)
(* C11: if the generator succeeds but the write of the new turn fails, the *)
(* request ends with a failure response that does not carry the generated  *)
(* reply, and no Turn of that request is in the collection afterwards.     *)
(***************************************************************************)
C11_WriteFailure ==
    [][\A r \in Reqs :
         /\ (req[r].op = "message" /\ req[r].pc = "writing"
               /\ req'[r].failure = "write")
              => /\ collection' = collection
                 /\ req'[r].pc = "done"
                 /\ req'[r].at = 0
                 /\ req'[r].res.status \in {500, 503, 504}
                 /\ DOMAIN req'[r].res.body = {"msg", "error"}
         /\ (req[r].failure = "write" /\ req'[r] # req[r])
              => collection' = collection /\ req'[r] = Idle]_vars

\* a write has failed after a reply was generated, beside a stored turn
C11_Witness ==
    \E r \in Reqs :
        /\ Answered(r, "message")
        /\ req[r].failure = "write"
        /\ req[r].steps = <<"read", "generate">>
        /\ Len(collection) > 0

(***************************************************************************)
(* C12: a message is accepted iff its length is in 1..5000 and a sessionId *)
(* iff its length is in 1..200, the length being that of the text after    *)
(* the chain has trimmed it: lengths 0, 201 (sessionId) and 5001 (message) *)
(* are rejected, lengths 200 and 5000 are accepted, a blank text is        *)
(* rejected and blanks around a text do not count.                         *)
(***************************************************************************)
\* a request whose submitted body is still at hand
Submitted(r) == req[r].pc # "idle" /\ req[r].failure \in {"none", "validation"}

Rejected(r) == req[r].pc = "done" /\ req[r].failure = "validation"

\* the fields the 400 answer of a request reports, none if it was admitted
ErrorsOf(r) == IF Rejected(r) THEN req[r].res.body.errors ELSE {}

TrimmedLen(t) == TextLen(trim(t))

ErrorsIn(op, raw) ==
    IF op = "message" THEN validateMessage(raw).errors
    ELSE validateHistory(raw).errors

C13_RejectedBeforeWork ==
    [][\A r \in Reqs :
         /\ (req[r].pc = "idle" /\ req'[r].pc # "idle"
               /\ ErrorsIn(req'[r].op, req'[r].raw) # {})
              => /\ req'[r].pc = "done" /\ req'[r].failure = "validation"
                 /\ req'[r].res.status = 400
                 /\ req'[r].steps = <<>>
                 /\ req'[r].seen = 0 /\ req'[r].ids = <<>>
                 /\ req'[r].messages = <<>> /\ req'[r].response = EmptyText
                 /\ req'[r].at = 0
                 /\ collection' = collection
         /\ (req[r].failure = "validation" /\ req'[r] # req[r])
              => req'[r] = Idle /\ collection' = collection]_vars

\* requests of both routes stand rejected beside a stored turn
C13_Witness ==
    \E r, q \in Reqs :
        /\ Rejected(r) /\ req[r].op = "message" /\ req[r].steps = <<>>
        /\ Rejected(q) /\ req[q].op = "history"
        /\ Len(collection) > 0

C15_HistoryOrderKept ==
    \A r \in Reqs :
        Generating(r) =>
            LET h == req[r].history
                m == req[r].messages
            IN  /\ Len(m) = Len(h) + 2
                /\ m[1] = [role |-> "system", content |-> SYSTEM_PROMPT]
                /\ \A i \in 1..Len(h) :
                       m[i + 1] = [role |-> h[i].role, content |-> h[i].content]
                /\ m[Len(m)] = [role |-> "user", content |-> req[r].body.message]

\* a message list is with the model whose history has four entries of two
\* turns with different texts
C15_Witness ==
    \E r \in Reqs :
        /\ Generating(r)
        /\ Len(req[r].history) = 4
        /\ req[r].history[1].content # req[r].history[3].content
        /\ req[r].history[1].role # req[r].history[2].role

(***************************************************************************)
(* C16: idempotence of reads.  Two prompt-history reads, or two history    *)
(* reads, of the same session with no write in between return identical    *)
(* sequences, and neither read changes the collection.                     *)
(***************************************************************************)
\* nothing has been written since the request r read the collection
NoWriteSince(r) == req[r].seen = Len(collection)

\* the results a history read of the session can return in this state
HistoryReads(sessionId) ==
    {historyData(collection, order) :
        order \in sort(collection, match(collection, sessionId), 1)}

\* the histories a prompt read of the session can build in this state
PromptReads(sessionId) ==
    {historyOf(messageData(collection, order)) :
        order \in sort(collection, match(collection, sessionId), -1)}

\* whatever a second evaluation returns is what the first returned
C16_ReadsIdempotent ==
    \A r \in Reqs :
        /\ (Succeeded(r, "history") /\ NoWriteSince(r))
              => HistoryReads(req[r].body.sessionId) = {req[r].res.body.data}
        /\ (Generating(r) /\ NoWriteSince(r))
              => PromptReads(req[r].body.sessionId) = {req[r].history}

(***************************************************************************)
(* C17: the turns of a session are totally ordered by createdAt, ties      *)
(* broken by insertion order: of two turns with equal createdAt, the       *)
(* history read and the prompt-history read list the one inserted first    *)
(* before the one inserted later.                                          *)
(***************************************************************************)
\* the documents at i and j of a read result share their timestamp
Tied(ids, i, j) == collection[ids[i]].createdAt = collection[ids[j]].createdAt

C17_TiesByInsertionOrder ==
    \A r \in Reqs :
        \* the history read lists oldest first
        /\ Succeeded(r, "history") =>
              \A i, j \in 1..Len(req[r].ids) :
                  (i < j /\ Tied(req[r].ids, i, j)) => req[r].ids[i] < req[r].ids[j]
        \* the prompt read returns newest first, and the handler reverses it
        /\ Generating(r) =>
              \A i, j \in 1..Len(req[r].ids) :
                  (i < j /\ Tied(req[r].ids, i, j)) => req[r].ids[i] > req[r].ids[j]

(***************************************************************************)
(* C18: two concurrent submit requests on one session that both succeed    *)
(* leave both their turns in the collection, and the history read lists    *)
(* the two turns in the order of their store writes.                       *)
(***************************************************************************)
\* each of the two requests read the collection before the other wrote
Overlapping(p, q) ==
    /\ p # q
    /\ Succeeded(p, "message") /\ Succeeded(q, "message")
    /\ req[p].body.sessionId = req[q].body.sessionId
    /\ req[p].seen < req[q].at /\ req[q].seen < req[p].at

Pos(s, x) == CHOOSE i \in 1..Len(s) : s[i] = x

C18_ConcurrentSubmits ==
    \A p, q \in Reqs :
        Overlapping(p, q) =>
            /\ req[p].at # req[q].at
            /\ \A x \in {p, q} :
                   /\ req[x].at \in 1..Len(collection)
                   /\ collection[req[x].at].message = req[x].body.message
                   /\ collection[req[x].at].reply = req[x].response
            /\ \A order \in sort(collection,
                                 match(collection, req[p].body.sessionId), 1) :
                   Pos(order, req[p].at) < Pos(order, req[q].at)
                       <=> req[p].at < req[q].at

(***************************************************************************)
(* C19: the conversation history in the prompt is limited to the last 10   *)
(* messages: the list sent to the model holds at most 10 prior messages    *)
(* between the system preamble and the new user message.                   *)
(***************************************************************************)
C19_TenPriorMessages ==
    \A r \in Reqs :
        Generating(r) => Len(req[r].messages) - 2 <= PromptLimit

(***************************************************************************)
(* C20: every request that reaches its handler ends with exactly one       *)
(* response, whichever step fails, provided each external call eventually  *)
(* returns or fails: a response is sent when the request ends and only     *)
(* then, it is never followed by a second one, and a request in a handler  *)
(* is eventually answered whatever the other requests do.                  *)
(***************************************************************************)
InHandler(r) == req[r].pc \notin {"idle", "done"}

Responded(r) == req[r].res.status # 0

C20_ExactlyOneResponse ==
    /\ [](\A r \in Reqs : Responded(r) <=> req[r].pc = "done")
    /\ [][\A r \in Reqs :
            Responded(r) => (req'[r] = req[r] \/ req'[r] = Idle)]_vars
    /\ \A r \in Reqs : InHandler(r) ~> (req[r].pc = "done" /\ Responded(r))

\* a request that failed in the generator and a request that succeeded have
\* both been answered
C20_Witness ==
    \E r, q \in Reqs :
        /\ Answered(r, "message") /\ req[r].failure = "generate"
        /\ Responded(r) /\ req[r].res.status # 200
        /\ Succeeded(q, "message") /\ req[q].steps = <<"read", "generate", "persist", "respond">>

(***************************************************************************)
(* C21: session isolation of reads and writes.  The history read and the   *)
(* prompt history of session s hold only data of turns whose sessionId is  *)
(* s, and a submit request on another session, successful or failed,       *)
(* leaves what both reads of s return unchanged: the only step that        *)
(* changes them is the insert of a request on s itself.                    *)
(***************************************************************************)
\* the session ids that pass the validator chains
Sessions == {trim(v) : v \in RawSessionIds} \ {EmptyText}

\* the flattened user/assistant pairs of the documents ids of the collection
PairsOf(ids, user, assistant) ==
    [k \in 1..(2 * Len(ids)) |->
        IF k % 2 = 1 THEN [who |-> user, text |-> collection[ids[(k + 1) \div 2]].message]
        ELSE [who |-> assistant, text |-> collection[ids[k \div 2]].reply]]

OnlyOwnSession(r) ==
    /\ \A i \in 1..Len(req[r].ids) :
           collection[req[r].ids[i]].sessionId = req[r].body.sessionId
    /\ Succeeded(r, "history") =>
           /\ Len(req[r].res.body.data) = 2 * Len(req[r].ids)
           /\ \A k \in 1..Len(req[r].res.body.data) :
                  /\ req[r].res.body.data[k].sender
                        = PairsOf(req[r].ids, "user", "ai")[k].who
                  /\ req[r].res.body.data[k].text
                        = PairsOf(req[r].ids, "user", "ai")[k].text
    /\ Generating(r) =>
           /\ Len(req[r].history) = 2 * Len(req[r].ids)
           /\ \A k \in 1..Len(req[r].history) :
                  \E i \in 1..Len(req[r].ids) :
                      req[r].history[k].content
                          \in {collection[req[r].ids[i]].message,
                               collection[req[r].ids[i]].reply}

\* request r on session s applies its insert in this step
InsertOn(r, s) ==
    /\ req[r].op = "message" /\ req[r].pc = "writing" /\ req'[r].pc = "written"
    /\ req[r].body.sessionId = s

C21_SessionIsolation ==
    /\ [](\A r \in Reqs : OnlyOwnSession(r))
    \* both reads are functions of the collection, so only the steps that
    \* change it need to be looked at
    /\ [][collection' # collection =>
            \A s \in Sessions :
                (HistoryReads(s)' # HistoryReads(s) \/ PromptReads(s)' # PromptReads(s))
                    => \E r \in Reqs : InsertOn(r, s)]_vars

\* a history read of one session stands answered with a turn of its own
\* while a request on another session has written after it, and the read
\* is still what the session returns
C21_Witness ==
    \E r, q \in Reqs :
        /\ Succeeded(r, "history") /\ req[r].ids # <<>>
        /\ req[q].op = "message" /\ req[q].pc = "written"
        /\ req[q].body.sessionId # req[r].body.sessionId
        /\ req[q].at > req[r].seen
        /\ HistoryReads(req[r].body.sessionId) = {req[r].res.body.data}

(***************************************************************************)
(* C22: in the chat page, after any interleaving of user actions (send,    *)
(* select another chat, new chat, delete chat) with the arrival of the     *)
(* responses of history fetches and sends, every message of the displayed  *)
(* list belongs to the currently selected session: a reply or a history    *)
(* that arrives for a session the user has left is not shown in the        *)
(* session selected since.                                                 *)
(***************************************************************************)
C22_ShownBelongToSelected ==
    \A k \in 1..Len(client.messages) :
        client.messages[k].of = client.sessionId

====
